---- MODULE Spec2Model ----
(***************************************************************************)
(* Model of convert-deepwiki.py: the page extractor                        *)
(* (extract_content_simple), the index builder (create_index) and the      *)
(* driver (main).  Text is modelled character by character: a Python str   *)
(* is a TLA+ string, indexed with SubSeq, joined with \o, compared by      *)
(* code point.                                                             *)
(***************************************************************************)
EXTENDS Integers, Sequences, FiniteSets, TLC

(***************************************************************************)
(* Bounds of the model.                                                    *)
(***************************************************************************)
MaxFiles == 3      \* entries of the input directory
MaxPieces == 4     \* pieces the text of a <title> element is built from
MaxRuns == 2       \* invocations of the program on the same directories

(***************************************************************************)
(* Python str primitives.                                                  *)
(***************************************************************************)
\* code points 32..95 and 97..126, in order
AsciiLow == " !\"#$%&'()*+,-./0123456789:;<=>?@ABCDEFGHIJKLMNOPQRSTUVWXYZ[\\]^_"
AsciiHigh == "abcdefghijklmnopqrstuvwxyz{|}~"

\* ord(c) of a one-character string
Ord(c) == IF c = "\n" THEN 10
          ELSE IF \E i \in 1..Len(AsciiLow) : SubSeq(AsciiLow, i, i) = c
          THEN 31 + (CHOOSE i \in 1..Len(AsciiLow) : SubSeq(AsciiLow, i, i) = c)
          ELSE 96 + (CHOOSE i \in 1..Len(AsciiHigh) : SubSeq(AsciiHigh, i, i) = c)

\* s[i-1] in Python terms (1-based here); "" past the end
Char(s, i) == IF i >= 1 /\ i <= Len(s) THEN SubSeq(s, i, i) ELSE ""

\* s.startswith(p, i-1)
StartsWithAt(s, i, p) == /\ i >= 1
                         /\ i + Len(p) - 1 <= Len(s)
                         /\ SubSeq(s, i, i + Len(p) - 1) = p

\* s.endswith(p)
EndsWith(s, p) == Len(p) <= Len(s) /\ StartsWithAt(s, Len(s) - Len(p) + 1, p)

\* s.find(c, i-1) for a one-character c, 1-based; 0 when absent
RECURSIVE Find(_, _, _)
Find(s, c, i) == IF i > Len(s) THEN 0
                 ELSE IF Char(s, i) = c THEN i
                 ELSE Find(s, c, i + 1)

\* s.rfind(c) for a one-character c, 1-based; 0 when absent
RECURSIVE RFindFrom(_, _, _)
RFindFrom(s, c, i) == IF i < 1 THEN 0
                      ELSE IF Char(s, i) = c THEN i
                      ELSE RFindFrom(s, c, i - 1)
RFind(s, c) == RFindFrom(s, c, Len(s))

\* a < b on Python str: lexicographic by code point
RECURSIVE StrLess(_, _)
StrLess(a, b) ==
    IF Len(b) = 0 THEN FALSE
    ELSE IF Len(a) = 0 THEN TRUE
    ELSE IF Char(a, 1) = Char(b, 1)
         THEN StrLess(SubSeq(a, 2, Len(a)), SubSeq(b, 2, Len(b)))
         ELSE Ord(Char(a, 1)) < Ord(Char(b, 1))

\* s.split(sep) for a one-character sep: the list of parts
RECURSIVE Split(_, _)
Split(s, sep) ==
    LET i == Find(s, sep, 1)
    IN  IF i = 0 THEN <<s>>
        ELSE <<SubSeq(s, 1, i - 1)>> \o Split(SubSeq(s, i + 1, Len(s)), sep)

\* s * n
RECURSIVE Repeat(_, _)
Repeat(s, n) == IF n <= 0 THEN "" ELSE s \o Repeat(s, n - 1)

(***************************************************************************)
(* pathlib: Path.stem, and the names Path.glob("*.html") yields.           *)
(***************************************************************************)
\* PurePath.stem: the name up to its last dot, unless that dot is the
\* first or the last character of the name (or there is none)
Stem(name) ==
    LET i == RFind(name, ".")
    IN  IF 1 < i /\ i < Len(name) THEN SubSeq(name, 1, i - 1) ELSE name

\* fnmatch of a directory entry against the pattern "*.html"
MatchesGlob(name) == EndsWith(name, ".html")

(***************************************************************************)
(* extract_content_simple: the two regular expressions.                    *)
(***************************************************************************)
\* \s on the characters of the model
IsSpace(c) == c \in {" ", "\n", "\t"}

\* end of [^<]+ started at j: first index >= j holding "<", or Len+1
RECURSIVE NotLtEnd(_, _)
NotLtEnd(s, j) == IF j > Len(s) \/ Char(s, j) = "<" THEN j
                  ELSE NotLtEnd(s, j + 1)

\* re.match(r'<title>([^<]+)</title>', s, pos=i-1) succeeds
TitleMatchAt(s, i) ==
    /\ StartsWithAt(s, i, "<title>")
    /\ LET j == i + Len("<title>")
           k == NotLtEnd(s, j)
       IN  k > j /\ StartsWithAt(s, k, "</title>")

\* re.search(r'<title>([^<]+)</title>', content): start of the leftmost
\* match, 0 for None
TitleSearch(content) ==
    IF \E i \in 1..Len(content) : TitleMatchAt(content, i)
    THEN CHOOSE i \in 1..Len(content) :
            /\ TitleMatchAt(content, i)
            /\ \A h \in 1..(i - 1) : ~TitleMatchAt(content, h)
    ELSE 0

\* title_match.group(1)
TitleGroup(content, i) ==
    LET j == i + Len("<title>")
    IN  SubSeq(content, j, NotLtEnd(content, j) - 1)

\* end of \s* started at j
RECURSIVE SpaceEnd(_, _)
SpaceEnd(s, j) == IF j <= Len(s) /\ IsSpace(Char(s, j)) THEN SpaceEnd(s, j + 1)
                  ELSE j

\* end of .* started at j ("." matches anything but a line break)
RECURSIVE DotEnd(_, _)
DotEnd(s, j) == IF j > Len(s) \/ Char(s, j) = "\n" THEN j
                ELSE DotEnd(s, j + 1)

\* r'\s*\|\s*DeepWiki.*$' matched at p: the index just past the match, 0
\* when it does not match there.  "$" holds at the end of the string and
\* just before a line break that is the last character.
SuffixMatchEnd(s, p) ==
    LET q == SpaceEnd(s, p)
        d == SpaceEnd(s, q + 1)
        e == DotEnd(s, d + Len("DeepWiki"))
    IN  IF Char(s, q) # "|" THEN 0
        ELSE IF ~StartsWithAt(s, d, "DeepWiki") THEN 0
        ELSE IF e >= Len(s) THEN e
        ELSE 0

\* re.sub(r'\s*\|\s*DeepWiki.*$', '', title): the leftmost match is cut
\* out; nothing after it can match again
StripSuffix(title) ==
    IF \E p \in 1..Len(title) : SuffixMatchEnd(title, p) > 0
    THEN LET p == CHOOSE p \in 1..Len(title) :
                    /\ SuffixMatchEnd(title, p) > 0
                    /\ \A h \in 1..(p - 1) : SuffixMatchEnd(title, h) = 0
         IN  SubSeq(title, 1, p - 1)
                \o SubSeq(title, SuffixMatchEnd(title, p), Len(title))
    ELSE title

\* ExtractTitle falling back to the file's name, extension included
ExtractTitle_NameFallback(name, content) ==
    LET i == TitleSearch(content)
        title == IF i > 0 THEN TitleGroup(content, i) ELSE name
    IN  StripSuffix(title)

\* the title extract_content_simple computes from the text read
ExtractTitle(name, content) ==
    LET i == TitleSearch(content)
        title == IF i > 0 THEN TitleGroup(content, i) ELSE Stem(name)
    IN  StripSuffix(title)

\* extract_content_simple(html_file) once the file has been read
extract_content_simple(name, content) ==
    [title |-> ExtractTitle(name, content),
     filename |-> Stem(name),
     html |-> content]

(***************************************************************************)
(* create_index.                                                           *)
(***************************************************************************)
\* the three heading lines create_index starts the document with
IndexHeader(repo) ==
    "# " \o repo \o " - DeepWiki Documentation\n\n"
    \o "This documentation was exported from [DeepWiki](https://deepwiki.com).\n\n"
    \o "## Table of Contents\n\n"

\* one step of sorted(): p goes behind every record whose key is not greater
RECURSIVE InsertPage(_, _)
InsertPage(sorted, p) ==
    IF sorted = <<>> THEN <<p>>
    ELSE IF StrLess(p.filename, Head(sorted).filename)
         THEN <<p>> \o sorted
         ELSE <<Head(sorted)>> \o InsertPage(Tail(sorted), p)

\* SortPages without the sort: the records in the order given
SortPages_Unsorted(pages) == pages

\* sorted(pages, key=lambda p: p['filename']): stable, ascending
RECURSIVE SortPages(_)
SortPages(pages) ==
    IF pages = <<>> THEN <<>>
    ELSE InsertPage(SortPages(SubSeq(pages, 1, Len(pages) - 1)),
                    pages[Len(pages)])

\* IndexEntry indenting by level instead of level - 1
IndexEntry_IndentLevel(page) ==
    LET filename == page.filename
        title == page.title
        parts == Split(Split(filename, "-")[1], ".")
        level == Len(parts)
        indent == Repeat("  ", level)
    IN  indent \o "- [" \o title \o "](" \o filename \o ".md)\n"

\* the body of the loop of create_index: the line added for one page
IndexEntry(page) ==
    LET filename == page.filename
        title == page.title
        parts == Split(Split(filename, "-")[1], ".")
        level == Len(parts)
        indent == Repeat("  ", level - 1)
    IN  indent \o "- [" \o title \o "](" \o filename \o ".md)\n"

RECURSIVE JoinEntries(_)
JoinEntries(pages) ==
    IF pages = <<>> THEN ""
    ELSE IndexEntry(Head(pages)) \o JoinEntries(Tail(pages))

create_index(pages, repo) ==
    IndexHeader(repo) \o JoinEntries(SortPages(pages))

(***************************************************************************)
(* The driver, main, and the file system it runs against.                  *)
(***************************************************************************)
VARIABLES
    argv,        \* sys.argv
    html_exists, \* whether the path "docs" exists
    files,       \* the entries of "docs": name -> [readable, content]
    outdirs,     \* the output directories that exist: path -> (name -> text)
    pc,          \* position of main: "start", "check", "glob", "loop", "exit"
    html_dir,    \* main's html_dir
    output_dir,  \* main's output_dir
    html_files,  \* main's html_files, in the order glob returned them
    pages,       \* main's pages
    exit_code,   \* exit status of the process, -1 while it runs
    stdout,      \* the lines printed
    stderr,      \* the uncaught exception reported by the interpreter, or ""
    run,         \* number of the current invocation
    prev_out     \* outdirs as the previous invocation left it

vars == <<argv, html_exists, files, outdirs, pc, html_dir, output_dir,
          html_files, pages, exit_code, stdout, stderr, run, prev_out>>

Prog == "convert-deepwiki.py"

\* the label main passes to create_index
Repo == "rive-app/rive-runtime"

NoFiles == [n \in {} |-> ""]

\* command lines tried
Argvs == {<<Prog>>, <<Prog, "docs">>, <<Prog, "docs", "md">>}

\* entries the input directory may hold
DriverNames == {".html", ".html.html", "1.2-y.html", "1.10-x.html", "notes.txt"}
IndexNames == {".html", ".html.html", "1.2-overview.html", "1.10-x.html",
               "1.2-y.html", "2.1.3-deep.html", "7-intro.html"}
DriverContents == {"<title>Foo Bar | DeepWiki</title>", "<h1>Other</h1>"}

ExtractNames == {"a.html", "Foo | DeepWiki.html", ".html", "1.2-overview.html"}
TitlePieces == {"Foo", " ", "|", "DeepWiki", "\n"}

RECURSIVE Texts(_)
Texts(n) == IF n = 0 THEN {""}
            ELSE LET prev == Texts(n - 1)
                 IN  prev \cup {t \o p : t \in prev, p \in TitlePieces}

NoTitleContents == {"", "<p>text</p>", "<title>Foo", "<TITLE>Foo</TITLE>"}
ExtractContents ==
    {"<html><title>" \o t \o "</title>" \o post :
        t \in Texts(MaxPieces), post \in {"", "<title>Second</title>"}}
    \cup NoTitleContents

\* what a directory entry may be: a readable text, or something open() or
\* read() fails on (gone, permission denied, not UTF-8, a directory)
Entries(contents) ==
    [readable : {TRUE}, content : contents]
    \cup {[readable |-> FALSE, content |-> ""]}

\* the directory listings over names and contents with at most max entries,
\* at most one of them unreadable
Listings(names, contents, max) ==
    UNION {{f \in [D -> Entries(contents)] :
                Cardinality({n \in D : ~f[n].readable}) <= 1} :
           D \in {D \in SUBSET names : Cardinality(D) <= max}}

\* the orders in which a directory enumeration may return the set S
Orders(S) ==
    {o \in [1..Cardinality(S) -> S] :
        \A i, j \in 1..Cardinality(S) : i # j => o[i] # o[j]}

\* str(n) for a natural number
RECURSIVE Str(_)
Str(n) == IF n < 10 THEN SubSeq("0123456789", n + 1, n + 1)
          ELSE Str(n \div 10) \o SubSeq("0123456789", (n % 10) + 1, (n % 10) + 1)

InitWith(argvs, listings) ==
    /\ argv \in argvs
    /\ html_exists \in BOOLEAN
    /\ files \in IF html_exists THEN listings ELSE {NoFiles}
    /\ outdirs \in IF Len(argv) > 2
                    THEN {NoFiles, [d \in {"md"} |-> [n \in {"index.md"} |-> "stale"]]}
                    ELSE {NoFiles}
    /\ pc = "start"
    /\ html_dir = ""
    /\ output_dir = ""
    /\ html_files = <<>>
    /\ pages = <<>>
    /\ exit_code = -1
    /\ stdout = <<>>
    /\ stderr = ""
    /\ run = 1
    /\ prev_out = outdirs

Init == InitWith(Argvs, Listings(DriverNames, DriverContents, MaxFiles))

InitIndex == InitWith({<<Prog>>, <<Prog, "docs">>}, Listings(IndexNames, DriverContents, MaxFiles))

InitExtract == InitWith({<<Prog>>, <<Prog, "docs">>}, Listings(ExtractNames, ExtractContents, 1))

\* main, lines 127-129: no argument
Usage ==
    /\ pc = "start"
    /\ Len(argv) < 2
    /\ stdout' = Append(stdout, "Usage: python3 convert-deepwiki.py <html-dir> [output-dir]")
    /\ exit_code' = 1
    /\ pc' = "exit"
    /\ UNCHANGED <<argv, html_exists, files, outdirs, html_dir, output_dir,
                   html_files, pages, stderr, run, prev_out>>

\* main, lines 131-132
ParseArgs ==
    /\ pc = "start"
    /\ Len(argv) >= 2
    /\ html_dir' = argv[2]
    /\ output_dir' = IF Len(argv) > 2 THEN argv[3] ELSE argv[2] \o "/markdown"
    /\ pc' = "check"
    /\ UNCHANGED <<argv, html_exists, files, outdirs, html_files, pages,
                   exit_code, stdout, stderr, run, prev_out>>

\* main, lines 134-136: the directory does not exist
DirNotFound ==
    /\ pc = "check"
    /\ ~html_exists
    /\ stdout' = Append(stdout, "Error: Directory not found: " \o html_dir)
    /\ exit_code' = 1
    /\ pc' = "exit"
    /\ UNCHANGED <<argv, html_exists, files, outdirs, html_dir, output_dir,
                   html_files, pages, stderr, run, prev_out>>

\* main, lines 134-138: the directory exists; output_dir.mkdir(exist_ok=True)
Mkdir ==
    /\ pc = "check"
    /\ html_exists
    /\ outdirs' = IF output_dir \in DOMAIN outdirs THEN outdirs
                  ELSE [d \in DOMAIN outdirs \cup {output_dir} |->
                            IF d = output_dir THEN NoFiles ELSE outdirs[d]]
    /\ pc' = "glob"
    /\ UNCHANGED <<argv, html_exists, files, html_dir, output_dir, html_files,
                   pages, exit_code, stdout, stderr, run, prev_out>>

\* Glob with the pattern "*": every entry of the directory
Glob_NoFilter ==
    /\ pc = "glob"
    /\ \E o \in Orders(DOMAIN files) :
          /\ html_files' = o
          /\ stdout' = Append(stdout, "Found " \o Str(Len(o)) \o " HTML files")
    /\ pages' = <<>>
    /\ pc' = "loop"
    /\ UNCHANGED <<argv, html_exists, files, outdirs, html_dir, output_dir,
                   exit_code, stderr, run, prev_out>>

\* main, lines 141-144: the enumeration order is the file system's choice
Glob ==
    /\ pc = "glob"
    /\ \E o \in Orders({n \in DOMAIN files : MatchesGlob(n)}) :
          /\ html_files' = o
          /\ stdout' = Append(stdout, "Found " \o Str(Len(o)) \o " HTML files")
    /\ pages' = <<>>
    /\ pc' = "loop"
    /\ UNCHANGED <<argv, html_exists, files, outdirs, html_dir, output_dir,
                   exit_code, stderr, run, prev_out>>

\* main, lines 145-148, one iteration: the file is read
ProcessFile ==
    /\ pc = "loop"
    /\ Len(pages) < Len(html_files)
    /\ LET name == html_files[Len(pages) + 1]
       IN  /\ files[name].readable
           /\ stdout' = Append(stdout, "Processing: " \o name)
           /\ pages' = Append(pages,
                              extract_content_simple(name, files[name].content))
    /\ UNCHANGED <<argv, html_exists, files, outdirs, pc, html_dir, output_dir,
                   html_files, exit_code, stderr, run, prev_out>>

\* main, lines 145-147 with line 87 raising: open() or read() fails, nothing
\* catches the exception, the interpreter reports it and exits with status 1
ReadError ==
    /\ pc = "loop"
    /\ Len(pages) < Len(html_files)
    /\ LET name == html_files[Len(pages) + 1]
       IN  /\ ~files[name].readable
           /\ stdout' = Append(stdout, "Processing: " \o name)
    /\ stderr' = "Traceback (most recent call last)"
    /\ exit_code' = 1
    /\ pc' = "exit"
    /\ UNCHANGED <<argv, html_exists, files, outdirs, html_dir, output_dir,
                   html_files, pages, run, prev_out>>

\* main, lines 150-160: the index is built and written, main returns
WriteIndex ==
    /\ pc = "loop"
    /\ Len(pages) = Len(html_files)
    /\ LET index_content == create_index(pages, Repo)
           dir == outdirs[output_dir]
       IN  outdirs' = [outdirs EXCEPT ![output_dir] =
                          [n \in DOMAIN dir \cup {"index.md"} |->
                              IF n = "index.md" THEN index_content ELSE dir[n]]]
    /\ stdout' = stdout \o <<"\nCreated index at: " \o output_dir \o "/index.md",
                             "\nNote: Full markdown extraction requires JavaScript rendering.",
                             "Consider using Puppeteer or Playwright for complete extraction.">>
    /\ exit_code' = 0
    /\ pc' = "exit"
    /\ UNCHANGED <<argv, html_exists, files, html_dir, output_dir, html_files,
                   pages, stderr, run, prev_out>>

\* lines 163-164 again: the operator runs the program once more with the
\* same command line on the same, unchanged directories
Rerun ==
    /\ pc = "exit"
    /\ run < MaxRuns
    /\ run' = run + 1
    /\ prev_out' = outdirs
    /\ pc' = "start"
    /\ html_dir' = ""
    /\ output_dir' = ""
    /\ html_files' = <<>>
    /\ pages' = <<>>
    /\ exit_code' = -1
    /\ stdout' = <<>>
    /\ stderr' = ""
    /\ UNCHANGED <<argv, html_exists, files, outdirs>>

Next ==
    \/ Usage
    \/ ParseArgs
    \/ DirNotFound
    \/ Mkdir
    \/ Glob
    \/ ProcessFile
    \/ ReadError
    \/ WriteIndex
    \/ Rerun

Spec == Init /\ [][Next]_vars

\* the same program over directories chosen to exercise create_index
SpecIndex == InitIndex /\ [][Next]_vars

\* the same program over one-page directories chosen to exercise
\* extract_content_simple
SpecExtract == InitExtract /\ [][Next]_vars

(***************************************************************************)
(* Vocabulary of the properties below.                                     *)
(***************************************************************************)
\* main returned normally
Completed == pc = "exit" /\ exit_code = 0

\* the run got a command line naming an existing input directory
ValidRun == Len(argv) >= 2 /\ html_exists

\* the *.html entries of the input directory
Discovered == {n \in DOMAIN files : MatchesGlob(n)}

\* the files of the output directory of the run
OutFiles == IF output_dir \in DOMAIN outdirs THEN DOMAIN outdirs[output_dir]
            ELSE {}

\* the text of index.md in the output directory
IndexText == outdirs[output_dir]["index.md"]

\* the list built from pages taken in the order o
Permuted(o) == [i \in 1..Len(pages) |-> pages[o[i]]]

\* "|", optional whitespace, "DeepWiki" found at q
BrandAt(t, q) ==
    /\ Char(t, q) = "|"
    /\ \E d \in (q + 1)..(Len(t) + 1) :
          /\ \A h \in (q + 1)..(d - 1) : IsSpace(Char(t, h))
          /\ StartsWithAt(t, d, "DeepWiki")

HasBrand(t) == \E q \in 1..Len(t) : BrandAt(t, q)

\* t without its trailing whitespace
RECURSIVE RStrip(_)
RStrip(t) == IF Len(t) > 0 /\ IsSpace(Char(t, Len(t)))
             THEN RStrip(SubSeq(t, 1, Len(t) - 1))
             ELSE t

\* t with the suffix "| DeepWiki..." and the whitespace before it removed
WithoutBrand(t) ==
    IF HasBrand(t)
    THEN LET q == CHOOSE q \in 1..Len(t) :
                    BrandAt(t, q) /\ \A h \in 1..(q - 1) : ~BrandAt(t, h)
         IN  RStrip(SubSeq(t, 1, q - 1))
    ELSE t

\* index of the first "<title>" of the text, 0 when there is none
FirstOpen(content) ==
    IF \E i \in 1..Len(content) : StartsWithAt(content, i, "<title>")
    THEN CHOOSE i \in 1..Len(content) :
            /\ StartsWithAt(content, i, "<title>")
            /\ \A h \in 1..(i - 1) : ~StartsWithAt(content, h, "<title>")
    ELSE 0

\* the first <title> tag opens an element <title>T</title> with a text T
HasTitleText(content) ==
    LET i == FirstOpen(content)
        k == Find(content, "<", i + 7)
    IN  i > 0 /\ k > i + 7 /\ StartsWithAt(content, k, "</title>")

\* that text T
TitleText(content) ==
    SubSeq(content, FirstOpen(content) + 7,
           Find(content, "<", FirstOpen(content) + 7) - 1)

\* the text holds a <title> tag closed by a </title> tag
HasTitleElement(content) ==
    \E i \in 1..Len(content) :
        /\ StartsWithAt(content, i, "<title>")
        /\ \E k \in (i + 7)..Len(content) : StartsWithAt(content, k, "</title>")

\* the part of an identifier before its first "-"
Section(id) == IF Find(id, "-", 1) = 0 THEN id
               ELSE SubSeq(id, 1, Find(id, "-", 1) - 1)

\* number of "."-separated parts of the section of an identifier
Depth(id) == 1 + Cardinality({i \in 1..Len(Section(id)) : Char(Section(id), i) = "."})

RECURSIVE Spaces(_)
Spaces(n) == IF n <= 0 THEN "" ELSE " " \o Spaces(n - 1)

\* the list entry of a record: <indent>- [<title>](<identifier>.md)
ListEntry(page) ==
    Spaces(2 * (Depth(page.filename) - 1))
    \o "- [" \o page.title \o "](" \o page.filename \o ".md)\n"

RECURSIVE ListOf(_)
ListOf(ps) == IF ps = <<>> THEN "" ELSE ListEntry(Head(ps)) \o ListOf(Tail(ps))

\* a <= b in lexicographic order of code points
LexLeq(a, b) ==
    LET n == IF Len(a) < Len(b) THEN Len(a) ELSE Len(b)
        diff == {i \in 1..n : Char(a, i) # Char(b, i)}
    IN  IF diff = {} THEN Len(a) <= Len(b)
        ELSE LET i == CHOOSE i \in diff : \A h \in diff : i <= h
             IN  Ord(Char(a, i)) < Ord(Char(b, i))

\* the skeleton of the index: title line, attribution, heading
Skeleton ==
    "# rive-app/rive-runtime - DeepWiki Documentation\n\nThis documentation was exported from [DeepWiki](https://deepwiki.com).\n\n## Table of Contents\n\n"

(***************************************************************************)
(* The properties.                                                         *)
(***************************************************************************)

\* C1: a completed run over an existing input directory leaves index.md and
\* one page output <identifier>.md per readable *.html file in the output
\* directory.
C1_PageOutputs ==
    (Completed /\ ValidRun) =>
        /\ "index.md" \in OutFiles
        /\ \A n \in Discovered :
              files[n].readable => (Stem(n) \o ".md") \in OutFiles

\* C2: when a discovered *.html file cannot be read, the run is not aborted:
\* it ends with exit code 0, every readable discovered file has its record,
\* the unreadable one has none, and index.md is written from those records.
C2_UnreadableSkipped ==
    (pc = "exit" /\ ValidRun /\ \E n \in Discovered : ~files[n].readable) =>
        /\ exit_code = 0
        /\ \A n \in Discovered :
              files[n].readable <=>
                  \E i \in 1..Len(pages) : html_files[i] = n
        /\ "index.md" \in OutFiles
        /\ IndexText = create_index(pages, Repo)

\* C3: the exit code is 1 without a command-line argument, 1 when html-dir
\* does not exist, and 0 in every other case.
C3_ExitCode ==
    pc = "exit" =>
        exit_code = IF Len(argv) < 2 \/ ~html_exists THEN 1 ELSE 0

\* C4: the second run on the same unchanged directories leaves the output
\* files byte-identical to what the first run left, whatever the two
\* enumeration orders were.
C4_Idempotent ==
    (pc = "exit" /\ run >= 2) => outdirs = prev_out

\* C5: in a completed run the identifiers of the records are pairwise
\* distinct and every link target <identifier>.md of the index is a file of
\* the output directory.
C5_LinksResolve ==
    Completed =>
        /\ \A i, j \in 1..Len(pages) :
              i # j => pages[i].filename # pages[j].filename
        /\ \A i \in 1..Len(pages) :
              (pages[i].filename \o ".md") \in OutFiles

\* C6: for a page whose first <title> element has the text T, the title of
\* its record is T with the trailing suffix "| DeepWiki..." and the
\* whitespace before it removed, and T itself when T has no such suffix.
C6_TitleStripped ==
    \A i \in 1..Len(pages) :
        HasTitleText(pages[i].html) =>
            pages[i].title = WithoutBrand(TitleText(pages[i].html))

\* C7 as stated: for a page without <title> element the title of its record
\* is the filename stem, whatever the stem.
C7_TitleIsStem ==
    \A i \in 1..Len(pages) :
        ~HasTitleElement(pages[i].html) =>
            pages[i].title = Stem(html_files[i])

\* C7 as amended: for a page without <title> element the title of its record
\* is the filename stem, provided the stem holds no "|" followed by optional
\* whitespace and "DeepWiki".
C7_TitleIsStemUnlessBranded ==
    \A i \in 1..Len(pages) :
        (~HasTitleElement(pages[i].html) /\ ~HasBrand(Stem(html_files[i]))) =>
            pages[i].title = Stem(html_files[i])

C7_Witness ==
    /\ Completed
    /\ Len(pages) = 1
    /\ html_files[1] = "1.2-overview.html"
    /\ pages[1].html = "<p>text</p>"
    /\ pages[1].title = "1.2-overview"

\* C8: the index of a completed run is the heading lines followed by exactly
\* one entry "<indent>- [<title>](<identifier>.md)" per record, the indent
\* being two spaces times (depth - 1) and depth the number of "."-separated
\* parts of the identifier before its first "-".
C8_EntryPerRecord ==
    Completed =>
        \E o \in Orders(1..Len(pages)) :
            IndexText = IndexHeader(Repo) \o ListOf(Permuted(o))

C8_Witness ==
    /\ Completed
    /\ Len(pages) = 3
    /\ \E i \in 1..3 : /\ pages[i].filename = "1.2-overview"
                       /\ Depth(pages[i].filename) = 2
                       /\ ListEntry(pages[i]) = "  - [Foo Bar](1.2-overview.md)\n"
    /\ \E i \in 1..3 : pages[i].filename = "2.1.3-deep"
    /\ \E i \in 1..3 : pages[i].filename = "7-intro"

\* C9: the entries of the index of a completed run stand in ascending
\* lexicographic (code point) order of their identifiers, whatever the order
\* of the records.
C9_Ascending ==
    Completed =>
        \E o \in Orders(1..Len(pages)) :
            /\ \A i, j \in 1..Len(pages) :
                  i < j => LexLeq(pages[o[i]].filename, pages[o[j]].filename)
            /\ IndexText = IndexHeader(Repo) \o JoinEntries(Permuted(o))

C9_Witness ==
    /\ Completed
    /\ Len(pages) = 3
    /\ pages[1].filename = "2.1.3-deep"
    /\ pages[2].filename = "1.2-y"
    /\ pages[3].filename = "1.10-x"
    /\ IndexText = IndexHeader(Repo) \o IndexEntry(pages[3])
                       \o IndexEntry(pages[2]) \o IndexEntry(pages[1])

\* C10: a run over an existing directory without *.html files ends with exit
\* code 0 and an index.md that is the title line, the attribution sentence
\* and the Table of Contents heading, with no list entry.
C10_EmptyDirectory ==
    (pc = "exit" /\ ValidRun /\ Discovered = {}) =>
        /\ exit_code = 0
        /\ "index.md" \in OutFiles
        /\ IndexText = Skeleton

C10_Witness ==
    /\ pc = "exit"
    /\ ValidRun
    /\ DOMAIN files = {"notes.txt"}
    /\ exit_code = 0
    /\ IndexText = Skeleton

====
